---------------------------- MODULE Spec2Model ----------------------------
(***************************************************************************)
(* The authentication bootstrap of Swipy: the PKCE verifier / challenge    *)
(* helpers of backend/utils.ts and the client-credentials token fetch      *)
(* getSpotifyToken.                                                        *)
(*                                                                         *)
(* Strings are sequences of UTF-16 code units (naturals), byte arrays are  *)
(* sequences over 0..255, 32-bit words are pairs <<hi, lo>> of 16-bit      *)
(* halves.                                                                 *)
(***************************************************************************)
EXTENDS Integers, Sequences, FiniteSets, TLC

\* ------------------------------------------------------------------------
\* Characters and folds
\* ------------------------------------------------------------------------

CodeRange(lo, hi) == [i \in 1..(hi - lo + 1) |-> lo + i - 1]

UpperCase == CodeRange(65, 90)      \* 'A'..'Z'
LowerCase == CodeRange(97, 122)     \* 'a'..'z'
Digits    == CodeRange(48, 57)      \* '0'..'9'

CharPlus   == 43
CharMinus  == 45
CharSlash  == 47
CharColon  == 58
CharEquals == 61
CharUnder  == 95

Range(s) == {s[i] : i \in 1..Len(s)}

\* TLC hands an operator its arguments unevaluated.  Evaluated(x) is TRUE, and
\* makes TLC compute x where it stands, so that a fold carries values and not
\* chains of suspended computations.
Evaluated(x) == x = x

\* Op(... Op(Op(acc, lo), lo + 1) ..., hi): a left fold over lo..hi, split in
\* halves so that the evaluation depth grows with the logarithm of the range.
RECURSIVE FoldRange(_, _, _, _)
FoldRange(Op(_, _), acc, lo, hi) ==
    IF lo > hi THEN acc
    ELSE IF lo = hi THEN Op(acc, lo)
    ELSE LET mid  == (lo + hi) \div 2
             left == FoldRange(Op, acc, lo, mid)
         IN  IF Evaluated(left) THEN FoldRange(Op, left, mid + 1, hi) ELSE acc

\* ------------------------------------------------------------------------
\* backend/utils.ts : generateRandomString
\* ------------------------------------------------------------------------

\* const possible = 'ABC...XYZabc...xyz0123456789'
possible == UpperCase \o LowerCase \o Digits

\* A byte scaled into the alphabet, possible[floor(x * 62 / 256)], instead of
\* reduced modulo its length.
PickCharScaled(x) == possible[((x * Len(possible)) \div 256) + 1]

\* possible[x % possible.length]; JavaScript strings are indexed from 0.
PickChar(x) == possible[(x % Len(possible)) + 1]

\* The decimal digits of a number, as a string.
RECURSIVE DecimalDigits(_)
DecimalDigits(n) ==
    IF n < 10 THEN <<48 + n>> ELSE Append(DecimalDigits(n \div 10), 48 + (n % 10))

\* reduce without its initial value "": the first byte itself starts the
\* accumulator, and the sum of a number and a string is their concatenation.
generateRandomStringNoInitialValue(values) ==
    FoldRange(LAMBDA acc, i : Append(acc, PickChar(values[i])),
              DecimalDigits(values[1]), 2, Len(values))

\* values.reduce((acc, x) => acc + possible[x % possible.length], "")
generateRandomString(values) ==
    FoldRange(LAMBDA acc, i : Append(acc, PickChar(values[i])),
              <<>>, 1, Len(values))

\* ------------------------------------------------------------------------
\* TextEncoder.encode : UTF-16 code units to UTF-8 bytes
\* ------------------------------------------------------------------------

IsHighSurrogate(c) == c >= 55296 /\ c <= 56319
IsLowSurrogate(c)  == c >= 56320 /\ c <= 57343

Utf8OfCodePoint(cp) ==
    IF cp < 128 THEN <<cp>>
    ELSE IF cp < 2048 THEN <<192 + (cp \div 64), 128 + (cp % 64)>>
    ELSE IF cp < 65536 THEN
        <<224 + (cp \div 4096), 128 + ((cp \div 64) % 64), 128 + (cp % 64)>>
    ELSE <<240 + (cp \div 262144), 128 + ((cp \div 4096) % 64),
           128 + ((cp \div 64) % 64), 128 + (cp % 64)>>

\* The bytes that the code unit at position i contributes: a surrogate pair is
\* one code point, encoded at its high half; a lone surrogate encodes as U+FFFD.
Utf8At(s, i) ==
    IF IsHighSurrogate(s[i]) /\ i < Len(s) /\ IsLowSurrogate(s[i + 1]) THEN
        Utf8OfCodePoint(65536 + (s[i] - 55296) * 1024 + (s[i + 1] - 56320))
    ELSE IF IsLowSurrogate(s[i]) /\ i > 1 /\ IsHighSurrogate(s[i - 1]) THEN <<>>
    ELSE IF IsHighSurrogate(s[i]) \/ IsLowSurrogate(s[i]) THEN
        Utf8OfCodePoint(65533)
    ELSE Utf8OfCodePoint(s[i])

Utf8Encode(s) == FoldRange(LAMBDA out, i : out \o Utf8At(s, i), <<>>, 1, Len(s))

\* ------------------------------------------------------------------------
\* crypto.subtle.digest('SHA-256', data)  (FIPS 180-4)
\* ------------------------------------------------------------------------

Bit(x, k) == (x \div (2 ^ k)) % 2

XorBits(a, b) == ((Bit(a, 0) + Bit(b, 0)) % 2)
               + ((Bit(a, 1) + Bit(b, 1)) % 2) * 2
               + ((Bit(a, 2) + Bit(b, 2)) % 2) * 4
               + ((Bit(a, 3) + Bit(b, 3)) % 2) * 8

AndBits(a, b) == (Bit(a, 0) * Bit(b, 0))
               + (Bit(a, 1) * Bit(b, 1)) * 2
               + (Bit(a, 2) * Bit(b, 2)) * 4
               + (Bit(a, 3) * Bit(b, 3)) * 8

\* The two operations on 4-bit values.
XorNib == [a \in 0..15 |-> [b \in 0..15 |-> XorBits(a, b)]]
AndNib == [a \in 0..15 |-> [b \in 0..15 |-> AndBits(a, b)]]

Xor16(a, b) == XorNib[a % 16][b % 16]
             + XorNib[(a \div 16) % 16][(b \div 16) % 16] * 16
             + XorNib[(a \div 256) % 16][(b \div 256) % 16] * 256
             + XorNib[a \div 4096][b \div 4096] * 4096

And16(a, b) == AndNib[a % 16][b % 16]
             + AndNib[(a \div 16) % 16][(b \div 16) % 16] * 16
             + AndNib[(a \div 256) % 16][(b \div 256) % 16] * 256
             + AndNib[a \div 4096][b \div 4096] * 4096

WXor(x, y) == <<Xor16(x[1], y[1]), Xor16(x[2], y[2])>>
WAnd(x, y) == <<And16(x[1], y[1]), And16(x[2], y[2])>>
WNot(x)    == <<65535 - x[1], 65535 - x[2]>>
WAdd(x, y) == <<(x[1] + y[1] + ((x[2] + y[2]) \div 65536)) % 65536,
                (x[2] + y[2]) % 65536>>

RECURSIVE RotR(_, _)
RotR(x, n) ==
    IF n >= 16 THEN RotR(<<x[2], x[1]>>, n - 16)
    ELSE <<(x[1] \div (2 ^ n)) + (x[2] % (2 ^ n)) * (2 ^ (16 - n)),
           (x[2] \div (2 ^ n)) + (x[1] % (2 ^ n)) * (2 ^ (16 - n))>>

\* Shift right by n < 16.
ShR(x, n) == <<x[1] \div (2 ^ n),
               (x[2] \div (2 ^ n)) + (x[1] % (2 ^ n)) * (2 ^ (16 - n))>>

Ch(x, y, z)  == WXor(WAnd(x, y), WAnd(WNot(x), z))
Maj(x, y, z) == WXor(WXor(WAnd(x, y), WAnd(x, z)), WAnd(y, z))
BigSigma0(x) == WXor(WXor(RotR(x, 2), RotR(x, 13)), RotR(x, 22))
BigSigma1(x) == WXor(WXor(RotR(x, 6), RotR(x, 11)), RotR(x, 25))
SmallSigma0(x) == WXor(WXor(RotR(x, 7), RotR(x, 18)), ShR(x, 3))
SmallSigma1(x) == WXor(WXor(RotR(x, 17), RotR(x, 19)), ShR(x, 10))

Sha256K ==
   <<<<17034, 12184>>, <<28983, 17553>>, <<46528, 64463>>, <<59829, 56229>>,
     <<14678, 49755>>, <<23025, 4593>>, <<37439, 33444>>, <<43804, 24277>>,
     <<55303, 43672>>, <<4739, 23297>>, <<9265, 34238>>, <<21772, 32195>>,
     <<29374, 23924>>, <<32990, 45566>>, <<39900, 1703>>, <<49563, 61812>>,
     <<58523, 27073>>, <<61374, 18310>>, <<4033, 40390>>, <<9228, 41420>>,
     <<11753, 11375>>, <<19060, 33962>>, <<23728, 43484>>, <<30457, 35034>>,
     <<38974, 20818>>, <<43057, 50797>>, <<45059, 10184>>, <<48985, 32711>>,
     <<50912, 3059>>, <<54695, 37191>>, <<1738, 25425>>, <<5161, 10599>>,
     <<10167, 2693>>, <<11803, 8504>>, <<19756, 28156>>, <<21304, 3347>>,
     <<25866, 29524>>, <<30314, 2747>>, <<33218, 51502>>, <<37490, 11397>>,
     <<41663, 59553>>, <<43034, 26187>>, <<49739, 35696>>, <<51052, 20899>>,
     <<53650, 59417>>, <<54937, 1572>>, <<62478, 13701>>, <<4202, 41072>>,
     <<6564, 49430>>, <<7735, 27656>>, <<10056, 30540>>, <<13488, 48309>>,
     <<14620, 3251>>, <<20184, 43594>>, <<23452, 51791>>, <<26670, 28659>>,
     <<29839, 33518>>, <<30885, 25455>>, <<33992, 30740>>, <<36039, 520>>,
     <<37054, 65530>>, <<42064, 27883>>, <<48889, 41975>>, <<50801, 30962>>>>

Sha256H0 ==
   <<<<27145, 58983>>, <<47975, 44677>>, <<15470, 62322>>, <<42319, 62778>>,
     <<20750, 21119>>, <<39685, 26764>>, <<8067, 55723>>, <<23520, 52505>>>>

\* The message, 0x80, zero bytes up to 56 mod 64, the bit length in 8 bytes.
Sha256Pad(data) ==
    LET n     == Len(data)
        zeros == (119 - (n % 64)) % 64
        bits  == n * 8
    IN  data \o <<128>> \o [i \in 1..zeros |-> 0]
             \o <<0, 0, 0, 0, (bits \div 16777216) % 256, (bits \div 65536) % 256,
                  (bits \div 256) % 256, bits % 256>>

\* The 16 big-endian words of block number b (from 0).
BlockWords(m, b) ==
    [t \in 1..16 |->
        LET o == b * 64 + (t - 1) * 4
        IN  <<m[o + 1] * 256 + m[o + 2], m[o + 3] * 256 + m[o + 4]>>]

\* The message schedule W[1..64] of a block of 16 words.
Schedule(block) ==
    FoldRange(LAMBDA w, t : Append(w,
                  WAdd(WAdd(SmallSigma1(w[t - 2]), w[t - 7]),
                       WAdd(SmallSigma0(w[t - 15]), w[t - 16]))),
              block, 17, 64)

\* One round on the working variables v = <<a, b, c, d, e, f, g, h>>.
Round(v, kt, wt) ==
    LET t1 == WAdd(WAdd(WAdd(v[8], BigSigma1(v[5])),
                        WAdd(Ch(v[5], v[6], v[7]), kt)), wt)
        t2 == WAdd(BigSigma0(v[1]), Maj(v[1], v[2], v[3]))
    IN  <<WAdd(t1, t2), v[1], v[2], v[3], WAdd(v[4], t1), v[5], v[6], v[7]>>

Compress(h, block) ==
    LET w == Schedule(block)
        v == FoldRange(LAMBDA u, t : Round(u, Sha256K[t], w[t]), h, 1, 64)
    IN  [i \in 1..8 |-> WAdd(h[i], v[i])]

HashBlocks(m) ==
    FoldRange(LAMBDA h, b : Compress(h, BlockWords(m, b)),
              Sha256H0, 0, (Len(m) \div 64) - 1)

WordBytes(x) == <<x[1] \div 256, x[1] % 256, x[2] \div 256, x[2] % 256>>

\* The 32 bytes of the digest.
Sha256Digest(data) ==
    LET h == HashBlocks(Sha256Pad(data))
    IN  WordBytes(h[1]) \o WordBytes(h[2]) \o WordBytes(h[3]) \o WordBytes(h[4])
        \o WordBytes(h[5]) \o WordBytes(h[6]) \o WordBytes(h[7]) \o WordBytes(h[8])

\* ------------------------------------------------------------------------
\* backend/utils.ts : sha256, base64encode
\* ------------------------------------------------------------------------

\* The bytes of the UTF-16 code units, low byte first, in place of UTF-8.
encodeUtf16(plain) ==
    [i \in 1..(2 * Len(plain)) |->
        IF i % 2 = 1 THEN plain[(i + 1) \div 2] % 256
        ELSE plain[i \div 2] \div 256]

\* const data = encoder.encode(plain)
encode(plain) == Utf8Encode(plain)

\* window.crypto.subtle.digest('SHA-256', data), once the promise resolves.
digest(data) == Sha256Digest(data)

Base64Alphabet == UpperCase \o LowerCase \o Digits \o <<CharPlus, CharSlash>>

B64(v) == Base64Alphabet[v + 1]

\* btoa that rejects every code unit above 0x7F.
BtoaThrowsAbove7F(s) == \E i \in 1..Len(s) : s[i] > 127

\* btoa rejects a string with a code unit above 0xFF (InvalidCharacterError).
BtoaThrows(s) == \E i \in 1..Len(s) : s[i] > 255

\* The four characters of the g-th group of three bytes (from 0); a last group
\* of one or two bytes is padded with '='.
Base64Group(s, g) ==
    LET o == 3 * g
        n == Len(s) - o
    IN  IF n = 1 THEN
            <<B64(s[o + 1] \div 4), B64((s[o + 1] % 4) * 16),
              CharEquals, CharEquals>>
        ELSE IF n = 2 THEN
            <<B64(s[o + 1] \div 4),
              B64((s[o + 1] % 4) * 16 + (s[o + 2] \div 16)),
              B64((s[o + 2] % 16) * 4), CharEquals>>
        ELSE
            <<B64(s[o + 1] \div 4),
              B64((s[o + 1] % 4) * 16 + (s[o + 2] \div 16)),
              B64((s[o + 2] % 16) * 4 + (s[o + 3] \div 64)),
              B64(s[o + 3] % 64)>>

\* btoa of a binary string: standard base64 with '=' padding.
btoa(s) ==
    FoldRange(LAMBDA out, g : out \o Base64Group(s, g),
              <<>>, 0, ((Len(s) + 2) \div 3) - 1)

\* s.replace(/c/g, '')
RemoveAll(s, c) == SelectSeq(s, LAMBDA x : x # c)

\* s.replace(/c/g, d)
ReplaceAll(s, c, d) == [i \in 1..Len(s) |-> IF s[i] = c THEN d ELSE s[i]]

\* base64encode without its last replacement, of '/' by '_'.
base64encodeKeepingSlash(input) ==
    ReplaceAll(RemoveAll(btoa(input), CharEquals), CharPlus, CharMinus)

\* btoa(String.fromCharCode(...new Uint8Array(input)))
\*     .replace(/=/g, '').replace(/\+/g, '-').replace(/\//g, '_')
base64encode(input) ==
    ReplaceAll(ReplaceAll(RemoveAll(btoa(input), CharEquals),
                          CharPlus, CharMinus),
               CharSlash, CharUnder)

\* ------------------------------------------------------------------------
\* Bounds and inputs of the PKCE helpers
\* ------------------------------------------------------------------------

MaxLen    == 3      \* longest string asked of generateRandomString directly
MaxStride == 2      \* largest step of a random byte pattern
MaxSeeds  == 9      \* number of random byte patterns the bootstrap may draw
MaxInput  == 2      \* longest string handed to sha256 directly

\* generateRandomString(64)
VerifierLength == 64

\* What crypto.getRandomValues may leave in a Uint8Array of n bytes: the byte
\* patterns start, start + stride, start + 2 stride, ... (mod 256).
RandomArrays(n, starts, strides) ==
    {[i \in 1..n |-> (a + (i - 1) * d) % 256] : a \in starts, d \in strides}

BootSeeds == {(23 * k) % 256 : k \in 0..(MaxSeeds - 1)}

\* Code units a string handed to sha256 is made of: NUL, 'A', U+00E9, U+20AC
\* and the two halves of the surrogate pair of U+1F600.
InputChars == {0, 65, 233, 8364, 55357, 56832}

InputStrings == UNION {[1..n -> InputChars] : n \in 0..MaxInput}

\* A value not assigned yet.
NotYet == <<>>

\* backend/utils.ts
VARIABLES
    gpc,            \* generateRandomString: "idle", "drawn", "done"
    length,         \* its parameter
    values,         \* the Uint8Array after crypto.getRandomValues
    randomString,   \* its result
    bpc,            \* the bootstrap: "start", "verifier", "digesting", "hashed", "done"
    verifierCalls,  \* the lengths generateRandomString was called with
    codeVerifier,
    data,           \* sha256's encoded input while the digest is pending
    hashed,
    codeChallenge

pkceVars == <<gpc, length, values, randomString,
              bpc, verifierCalls, codeVerifier, data, hashed, codeChallenge>>
genVars  == <<gpc, length, values, randomString>>
bootVars == <<bpc, verifierCalls, codeVerifier, data, hashed, codeChallenge>>


\* getSpotifyToken
VARIABLES
    CLIENT_ID,      \* process.env.SPOTIFY_CLIENT_ID at module load
    CLIENT_SECRET,  \* process.env.SPOTIFY_CLIENT_SECRET at module load
    pc,             \* per call: "idle", "fetching", "parsingError",
                    \*           "parsingToken", "settled"
    sent,           \* per call: the requests it handed to fetch
    delivered,      \* per call: what the network made of its request
    response,       \* per activation record: const response
    thrown,         \* per call: the error raised inside its try block
    outcome,        \* per call: how its promise settled
    events,         \* per call: what it did, in order
    console         \* the lines written to the console

tokenVars == <<CLIENT_ID, CLIENT_SECRET, pc, sent, delivered, response,
               thrown, outcome, events, console>>

vars == <<pkceVars, tokenVars>>

GenInit ==
    /\ gpc = "idle"
    /\ length = 0
    /\ values = NotYet
    /\ randomString = NotYet

BootInit ==
    /\ bpc = "start"
    /\ verifierCalls = <<>>
    /\ codeVerifier = NotYet
    /\ data = NotYet
    /\ hashed = NotYet
    /\ codeChallenge = NotYet

\* ------------------------------------------------------------------------
\* A call generateRandomString(n)
\* ------------------------------------------------------------------------

\* crypto.getRandomValues(new Uint8Array(length))
GetRandomValues(n) ==
    /\ gpc = "idle"
    /\ \E v \in RandomArrays(n, 0..255, 0..MaxStride) :
          values' = v
    /\ length' = n
    /\ gpc' = "drawn"
    /\ UNCHANGED randomString

\* return values.reduce(...)
ReturnRandomString ==
    /\ gpc = "drawn"
    /\ randomString' = generateRandomString(values)
    /\ gpc' = "done"
    /\ UNCHANGED <<length, values>>

GenNext ==
    \/ \E n \in 1..MaxLen : GetRandomValues(n) /\ UNCHANGED <<bootVars, tokenVars>>
    \/ ReturnRandomString /\ UNCHANGED <<bootVars, tokenVars>>

\* ------------------------------------------------------------------------
\* The bootstrap: codeVerifier, hashed, codeChallenge
\* ------------------------------------------------------------------------

\* const codeVerifier = generateRandomString(64)
GenerateVerifier ==
    /\ bpc = "start"
    /\ \E v \in RandomArrays(VerifierLength, BootSeeds, 0..MaxStride) :
          codeVerifier' = generateRandomString(v)
    /\ verifierCalls' = Append(verifierCalls, VerifierLength)
    /\ bpc' = "verifier"
    /\ UNCHANGED <<data, hashed, codeChallenge>>

\* sha256(codeVerifier) up to its await: the input is encoded, the digest pends.
Sha256Call ==
    /\ bpc = "verifier"
    /\ data' = encode(codeVerifier)
    /\ bpc' = "digesting"
    /\ UNCHANGED <<verifierCalls, codeVerifier, hashed, codeChallenge>>

\* const hashed = await sha256(codeVerifier)
Sha256Resolve ==
    /\ bpc = "digesting"
    /\ hashed' = digest(data)
    /\ bpc' = "hashed"
    /\ UNCHANGED <<verifierCalls, codeVerifier, data, codeChallenge>>

\* const codeChallenge = base64encode(hashed)
EncodeChallenge ==
    /\ bpc = "hashed"
    /\ codeChallenge' = base64encode(hashed)
    /\ bpc' = "done"
    /\ UNCHANGED <<verifierCalls, codeVerifier, data, hashed>>

BootNext ==
    \/ GenerateVerifier /\ UNCHANGED <<genVars, tokenVars>>
    \/ Sha256Call /\ UNCHANGED <<genVars, tokenVars>>
    \/ Sha256Resolve /\ UNCHANGED <<genVars, tokenVars>>
    \/ EncodeChallenge /\ UNCHANGED <<genVars, tokenVars>>

\* sha256 and base64encode applied to a string of the caller's.
ChallengeInit ==
    /\ bpc = "verifier"
    /\ verifierCalls = <<>>
    /\ codeVerifier \in InputStrings
    /\ data = NotYet
    /\ hashed = NotYet
    /\ codeChallenge = NotYet

ChallengeNext ==
    \/ Sha256Call /\ UNCHANGED <<genVars, tokenVars>>
    \/ Sha256Resolve /\ UNCHANGED <<genVars, tokenVars>>
    \/ EncodeChallenge /\ UNCHANGED <<genVars, tokenVars>>

\* ------------------------------------------------------------------------
\* getSpotifyToken: values, errors, requests and responses
\* ------------------------------------------------------------------------

NumCalls == 2       \* concurrent calls of getSpotifyToken

Calls == 1..NumCalls

\* JavaScript values as far as the token fetch meets them.  The properties of
\* an object are a sequence of <<name, value>> pairs.
JsUndefined  == [t |-> "undefined", s |-> "", n |-> 0, f |-> <<>>]
JsNull       == [t |-> "null", s |-> "", n |-> 0, f |-> <<>>]
JsString(x)  == [t |-> "string", s |-> x, n |-> 0, f |-> <<>>]
JsNumber(k)  == [t |-> "number", s |-> "", n |-> k, f |-> <<>>]
JsObject(ps) == [t |-> "object", s |-> "", n |-> 0, f |-> ps]

\* v[name]: the value of the last property of that name, undefined when there
\* is none (a string or a number has no such property either).
GetProp(v, name) ==
    LET at == {i \in 1..Len(v.f) : v.f[i][1] = name}
    IN  IF at = {} THEN JsUndefined
        ELSE v.f[CHOOSE i \in at : \A j \in at : j <= i][2]

\* Reading a property of null or undefined raises a TypeError.
PropThrows(v) == v.t \in {"null", "undefined"}

\* An environment variable: unset (process.env gives undefined) or a string.
EnvUnset     == [set |-> FALSE, text |-> <<>>]
EnvString(x) == [set |-> TRUE, text |-> x]

\* CLIENT_ID + ':' + CLIENT_SECRET: undefined concatenates as 'undefined'.
EnvToString(v) ==
    IF v.set THEN v.text ELSE <<117, 110, 100, 101, 102, 105, 110, 101, 100>>

\* The pairs (SPOTIFY_CLIENT_ID, SPOTIFY_CLIENT_SECRET) of the environment:
\* both unset; 'id' and 's3'; 'clé' and 's'; 'id' and 'p€'.
Environments ==
    { <<EnvUnset, EnvUnset>>,
      <<EnvString(<<105, 100>>), EnvString(<<115, 51>>)>>,
      <<EnvString(<<99, 108, 233>>), EnvString(<<115>>)>>,
      <<EnvString(<<105, 100>>), EnvString(<<112, 8364>>)>> }

\* Errors are objects: id tells the objects a call creates apart.
NoError == [name |-> "", message |-> "",
            errorCode |-> JsUndefined, errorDescription |-> JsUndefined,
            call |-> 0, id |-> 0]

PlatformError(c, k, nm, msg) ==
    [name |-> nm, message |-> msg,
     errorCode |-> JsUndefined, errorDescription |-> JsUndefined,
     call |-> c, id |-> k]

\* new SpotifyAuthError(`Spotify API error:: {$errorData.error}`,
\*                      errorData.error, errorData.error_description)
\* The template holds no ${...}: the message is that text as it stands.
SpotifyAuthError(c, k, errorData) ==
    [name |-> "SpotifyAuthError",
     message |-> "Spotify API error:: {$errorData.error}",
     errorCode |-> GetProp(errorData, "error"),
     errorDescription |-> GetProp(errorData, "error_description"),
     call |-> c, id |-> k]

\* new Error('Unable to authenticate with Spotify')
GenericError(c, k) ==
    PlatformError(c, k, "Error", "Unable to authenticate with Spotify")

\* catch without the instanceof test: no error is let through.
NeverSpotifyAuthError(error) == FALSE

\* error instanceof SpotifyAuthError
IsSpotifyAuthError(error) == error.name = "SpotifyAuthError"

\* 'Basic' + btoa(CLIENT_ID + ':' + CLIENT_SECRET)
BasicCredentials(id, secret) ==
    <<66, 97, 115, 105, 99>>
        \o btoa(EnvToString(id) \o <<CharColon>> \o EnvToString(secret))

\* The arguments of fetch.
TokenRequest(id, secret) ==
    [url     |-> "https://accounts.spotify.com/api/token",
     method  |-> "POST",
     headers |-> ("Content-Type" :> "application/x-www-form-urlencoded")
                 @@ ("Application" :> BasicCredentials(id, secret)),
     body    |-> "grant-type=client-credentials"]

\* Response bodies: text that is not JSON, or the value the text parses to.
NotJson      == [valid |-> FALSE, json |-> JsUndefined]
JsonText(v)  == [valid |-> TRUE, json |-> v]

Bodies ==
    { JsonText(JsObject(<< <<"access_token", JsString("abc123")>>,
                           <<"token_type", JsString("Bearer")>>,
                           <<"expires_in", JsNumber(3600)>> >>)),
      JsonText(JsObject(<< <<"error", JsString("invalid_client")>>,
                           <<"error_description",
                             JsString("Invalid client secret")>> >>)),
      JsonText(JsObject(<< <<"access_token", JsString("tok-2")>>,
                           <<"error", JsString("slow_down")>>,
                           <<"error_description", JsString("Retry later")>> >>)),
      JsonText(JsObject(<< <<"access_token", JsNumber(12345)>> >>)),
      JsonText(JsObject(<<>>)),
      JsonText(JsNull),
      JsonText(JsString("Service Unavailable")),
      NotJson }

Statuses == {200, 400}

\* response.ok
Ok(status) == status >= 200 /\ status <= 299

Responses == [status : Statuses, body : Bodies]

NoResponse == [status |-> 0, body |-> NotJson]

\* What the network made of a call's request.
Undelivered  == [kind |-> "none", response |-> NoResponse]
NetworkFails == [kind |-> "failure", response |-> NoResponse]
Delivers(r)  == [kind |-> "response", response |-> r]

Pending     == [kind |-> "pending", value |-> JsUndefined, error |-> NoError]
Returned(v) == [kind |-> "returned", value |-> v, error |-> NoError]
Rejected(e) == [kind |-> "rejected", value |-> JsUndefined, error |-> e]

\* One activation record for every call, in place of one per call.
SharedFrame(c) == 1

\* The activation record of call c: response, errorData and data are consts of
\* the function body, one set per call.
Frame(c) == c

\* return data.token_type
TokenTypeOf(tokenData) == GetProp(tokenData, "token_type")

\* return data.access_token
TokenOf(tokenData) == GetProp(tokenData, "access_token")

\* A catch block that raises the generic error without logging.
NoLog(c, error) == <<>>

\* console.error('Failed to get Spotify token:', error)
ErrorLog(c, error) ==
    << [call |-> c, level |-> "error",
        text |-> "Failed to get Spotify token:", error |-> error] >>

\* Whether building the arguments of fetch raises (btoa's InvalidCharacterError).
RequestThrows(id, secret) ==
    BtoaThrows(EnvToString(id) \o <<CharColon>> \o EnvToString(secret))

TokenInitWith(env) ==
    /\ CLIENT_ID = env[1]
    /\ CLIENT_SECRET = env[2]
    /\ pc = [c \in Calls |-> "idle"]
    /\ sent = [c \in Calls |-> <<>>]
    /\ delivered = [c \in Calls |-> Undelivered]
    /\ response = [c \in Calls |-> NoResponse]
    /\ thrown = [c \in Calls |-> NoError]
    /\ outcome = [c \in Calls |-> Pending]
    /\ events = [c \in Calls |-> <<>>]
    /\ console = <<>>

\* The catch block, entered by call c with the error its try block raised.
Catch(c, error, before) ==
    /\ thrown' = [thrown EXCEPT ![c] = error]
    /\ pc' = [pc EXCEPT ![c] = "settled"]
    /\ IF IsSpotifyAuthError(error)
       THEN /\ outcome' = [outcome EXCEPT ![c] = Rejected(error)]
            /\ events' = [events EXCEPT ![c] = before \o <<"throw">>]
            /\ UNCHANGED console
       ELSE /\ console' = console \o ErrorLog(c, error)
            /\ events' = [events EXCEPT ![c] =
                            before \o [i \in 1..Len(ErrorLog(c, error)) |-> "log"]
                                   \o <<"throw">>]
            /\ outcome' = [outcome EXCEPT ![c] =
                             Rejected(GenericError(c, error.id + 1))]

\* getSpotifyToken() up to its first await: the arguments of fetch are built
\* and the request is handed to fetch.
Call(c) ==
    /\ pc[c] = "idle"
    /\ IF RequestThrows(CLIENT_ID, CLIENT_SECRET)
       THEN /\ Catch(c, PlatformError(c, 1, "InvalidCharacterError",
                                      "Invalid character"), events[c])
            /\ UNCHANGED <<sent, delivered, response>>
       ELSE /\ sent' = [sent EXCEPT ![c] =
                          Append(@, TokenRequest(CLIENT_ID, CLIENT_SECRET))]
            /\ events' = [events EXCEPT ![c] = Append(@, "request")]
            /\ pc' = [pc EXCEPT ![c] = "fetching"]
            /\ UNCHANGED <<delivered, response, thrown, outcome, console>>
    /\ UNCHANGED <<CLIENT_ID, CLIENT_SECRET>>

\* await fetch(...) rejects: the request failed on the network.
FetchRejects(c) ==
    /\ pc[c] = "fetching"
    /\ delivered' = [delivered EXCEPT ![c] = NetworkFails]
    /\ Catch(c, PlatformError(c, 1, "TypeError", "fetch failed"),
             Append(events[c], "failure"))
    /\ UNCHANGED <<CLIENT_ID, CLIENT_SECRET, sent, response>>

\* await fetch(...) resolves with r: response.ok is tested and response.json()
\* is called and awaited, on line 101 or on line 108.
FetchResolves(c, r) ==
    /\ pc[c] = "fetching"
    /\ delivered' = [delivered EXCEPT ![c] = Delivers(r)]
    /\ response' = [response EXCEPT ![Frame(c)] = r]
    /\ events' = [events EXCEPT ![c] = Append(@, "response")]
    /\ pc' = [pc EXCEPT ![c] =
                IF ~Ok(r.status) THEN "parsingError" ELSE "parsingToken"]
    /\ UNCHANGED <<CLIENT_ID, CLIENT_SECRET, sent, thrown, outcome, console>>

\* await response.json() rejects: the body is not JSON.
JsonRejects(c) ==
    /\ pc[c] \in {"parsingError", "parsingToken"}
    /\ ~response[Frame(c)].body.valid
    /\ Catch(c, PlatformError(c, 1, "SyntaxError", "Unexpected token"),
             Append(events[c], "parse-failure"))
    /\ UNCHANGED <<CLIENT_ID, CLIENT_SECRET, sent, delivered, response>>

\* const errorData = await response.json(); throw new SpotifyAuthError(...)
ErrorBodyParsed(c) ==
    /\ pc[c] = "parsingError"
    /\ response[Frame(c)].body.valid
    /\ LET errorData == response[Frame(c)].body.json
       IN  IF PropThrows(errorData)
           THEN Catch(c, PlatformError(c, 1, "TypeError",
                                       "Cannot read properties of null"),
                      Append(events[c], "parsed"))
           ELSE Catch(c, SpotifyAuthError(c, 1, errorData),
                      Append(events[c], "parsed"))
    /\ UNCHANGED <<CLIENT_ID, CLIENT_SECRET, sent, delivered, response>>

\* const data = await response.json(); return data.access_token
TokenBodyParsed(c) ==
    /\ pc[c] = "parsingToken"
    /\ response[Frame(c)].body.valid
    /\ LET tokenData == response[Frame(c)].body.json
       IN  IF PropThrows(tokenData)
           THEN Catch(c, PlatformError(c, 1, "TypeError",
                                       "Cannot read properties of null"),
                      Append(events[c], "parsed"))
           ELSE /\ outcome' = [outcome EXCEPT ![c] = Returned(TokenOf(tokenData))]
                /\ events' = [events EXCEPT ![c] = @ \o <<"parsed", "return">>]
                /\ pc' = [pc EXCEPT ![c] = "settled"]
                /\ UNCHANGED <<thrown, console>>
    /\ UNCHANGED <<CLIENT_ID, CLIENT_SECRET, sent, delivered, response>>

TokenNext ==
    \/ \E c \in Calls : Call(c) /\ UNCHANGED pkceVars
    \/ \E c \in Calls : FetchRejects(c) /\ UNCHANGED pkceVars
    \/ \E c \in Calls : \E r \in Responses :
          FetchResolves(c, r) /\ UNCHANGED pkceVars
    \/ \E c \in Calls : JsonRejects(c) /\ UNCHANGED pkceVars
    \/ \E c \in Calls : ErrorBodyParsed(c) /\ UNCHANGED pkceVars
    \/ \E c \in Calls : TokenBodyParsed(c) /\ UNCHANGED pkceVars

\* The token fetch at rest, for the specifications of the PKCE helpers.
TokenAtRest == TokenInitWith(<<EnvUnset, EnvUnset>>)

InitToken ==
    /\ GenInit
    /\ BootInit
    /\ \E env \in Environments : TokenInitWith(env)

SpecToken == InitToken /\ [][TokenNext]_vars

InitRandom    == GenInit /\ BootInit /\ TokenAtRest
InitBootstrap == GenInit /\ BootInit /\ TokenAtRest
InitChallenge == GenInit /\ ChallengeInit /\ TokenAtRest

SpecRandom    == InitRandom /\ [][GenNext]_vars
SpecBootstrap == InitBootstrap /\ [][BootNext]_vars
SpecChallenge == InitChallenge /\ [][ChallengeNext]_vars

\* ------------------------------------------------------------------------
\* Properties of the PKCE helpers
\* ------------------------------------------------------------------------

\* The 62 symbols A-Z, a-z, 0-9.
AlphaNumeric == (65..90) \cup (97..122) \cup (48..57)

\* The base64url symbols: A-Z, a-z, 0-9, '-' and '_'.
Base64UrlChars == AlphaNumeric \cup {45, 95}

\* Bit p of a byte string, counted from the high bit of its first byte; 0 past
\* its end.
BitAt(bytes, p) ==
    IF p >= 8 * Len(bytes) THEN 0
    ELSE (bytes[(p \div 8) + 1] \div (2 ^ (7 - (p % 8)))) % 2

Base64UrlAlphabet == UpperCase \o LowerCase \o Digits \o <<45, 95>>

\* RFC 4648 section 5 without padding: the bits of the byte string six at a
\* time, the last group filled up with zero bits.
Base64UrlNoPad(bytes) ==
    [k \in 1..((8 * Len(bytes) + 5) \div 6) |->
        Base64UrlAlphabet[1 + 32 * BitAt(bytes, 6 * k - 6)
                            + 16 * BitAt(bytes, 6 * k - 5)
                            + 8 * BitAt(bytes, 6 * k - 4)
                            + 4 * BitAt(bytes, 6 * k - 3)
                            + 2 * BitAt(bytes, 6 * k - 2)
                            + BitAt(bytes, 6 * k - 1)]]

\* C1: once generateRandomString(L) has returned, L >= 1 random bytes were
\* drawn and the result has exactly L characters, each of them one of the 62
\* symbols A-Z, a-z, 0-9.
C1_RandomStringShape ==
    gpc = "done" =>
        /\ length >= 1
        /\ Len(values) = length
        /\ Len(randomString) = length
        /\ \A i \in 1..Len(randomString) : randomString[i] \in AlphaNumeric

\* A string of more than one character has been returned whose bytes pass
\* 62, 124, 186 and 248, where x % 62 wraps around.
C1_Witness ==
    /\ gpc = "done"
    /\ length > 1
    /\ \E i \in 1..length : values[i] >= 248
    /\ \E i \in 1..length : values[i] < 62

\* The byte values 0..255 that generateRandomString turns into the symbol c.
BytesMappingTo(c) == {b \in 0..255 : generateRandomString(<<b>>) = <<c>>}

\* C11: generateRandomString maps the i-th random byte b to the i-th output
\* character possible[b mod 62], in order; and of the 256 byte values, 5 map
\* to each of the first 8 symbols 'A'..'H' and 4 to each of the other 54
\* symbols (checked for every symbol of every returned string; every symbol
\* is returned in some state).
C11_ByteMapping ==
    gpc = "done" =>
        /\ Len(randomString) = Len(values)
        /\ \A i \in 1..Len(values) :
              /\ randomString[i] = possible[(values[i] % 62) + 1]
              /\ Cardinality(BytesMappingTo(randomString[i])) =
                    IF randomString[i] \in 65..72 THEN 5 ELSE 4

\* A returned string in which a byte of 248..255, the fifth byte value of
\* one of 'A'..'H', stands next to a byte that maps to a symbol after 'H'.
C11_Witness ==
    /\ gpc = "done"
    /\ \E i, j \in 1..Len(values) :
          /\ i # j
          /\ values[i] \in 248..255 /\ randomString[i] \in 65..72
          /\ randomString[j] \notin 65..72

\* C7: the challenge base64encode(sha256(input)) of any input string has
\* exactly 43 characters, each in A-Z, a-z, 0-9, '-' or '_', and so holds no
\* '+', no '/' and no '='; it is computed from a digest of 32 bytes.
C7_ChallengeShape ==
    /\ bpc \in {"hashed", "done"} =>
          Len(hashed) = 32 /\ \A i \in 1..32 : hashed[i] \in 0..255
    /\ bpc = "done" =>
          /\ Len(codeChallenge) = 43
          /\ \A i \in 1..Len(codeChallenge) :
                /\ codeChallenge[i] \in Base64UrlChars
                /\ codeChallenge[i] \notin {43, 47, 61}     \* '+', '/', '='

\* The challenge of a string that is not plain ASCII has been computed, and
\* both replacements acted on it.
C7_Witness ==
    /\ bpc = "done"
    /\ \E i \in 1..Len(codeVerifier) : codeVerifier[i] > 127
    /\ 45 \in Range(codeChallenge)      \* '-'
    /\ 95 \in Range(codeChallenge)      \* '_'

\* C8: the bootstrap generates the verifier exactly once, with length 64; a
\* challenge is only ever present together with the verifier it was derived
\* from, and when the sequence completes codeChallenge is the unpadded
\* base64url encoding of the SHA-256 digest of the UTF-8 bytes of codeVerifier.
C8_ChallengePairsWithVerifier ==
    /\ verifierCalls = (IF bpc = "start" THEN <<>> ELSE <<64>>)
    /\ bpc # "start" =>
          /\ Len(codeVerifier) = 64
          /\ \A i \in 1..64 : codeVerifier[i] \in AlphaNumeric
    /\ bpc = "done" <=> codeChallenge # NotYet
    /\ codeChallenge # NotYet =>
          codeChallenge = Base64UrlNoPad(Sha256Digest(Utf8Encode(codeVerifier)))

\* The sequence has completed for a verifier that is not one repeated symbol.
C8_Witness ==
    /\ bpc = "done"
    /\ verifierCalls = <<64>>
    /\ Len(codeChallenge) = 43
    /\ codeVerifier[1] # codeVerifier[2]

\* ------------------------------------------------------------------------
\* Properties of getSpotifyToken
\* ------------------------------------------------------------------------

Settled(c) == pc[c] = "settled"

\* The endpoint answered the request of call c with a body that is a JSON
\* object.
AnsweredWithObject(c) ==
    /\ delivered[c].kind = "response"
    /\ delivered[c].response.body.valid
    /\ delivered[c].response.body.json.t = "object"

\* The properties of the JSON object the endpoint answered call c with.
AnsweredProps(c) == delivered[c].response.body.json.f

HasProp(ps, name) == \E i \in 1..Len(ps) : ps[i][1] = name

\* x is the value of property name, which occurs once.
IsPropValue(ps, name, x) ==
    /\ HasProp(ps, name)
    /\ \A i \in 1..Len(ps) : ps[i][1] = name => ps[i][2] = x

LogsOf(c) == SelectSeq(console, LAMBDA line : line.call = c)

\* The position of the first event e in what call c did; 0 when it did not.
FirstAt(c, e) ==
    IF \E i \in 1..Len(events[c]) : events[c][i] = e
    THEN CHOOSE i \in 1..Len(events[c]) :
            events[c][i] = e /\ \A j \in 1..(i - 1) : events[c][j] # e
    ELSE 0

CountOf(c, e) == Cardinality({i \in 1..Len(events[c]) : events[c][i] = e})

IsGenericFailure(o) ==
    /\ o.kind = "rejected"
    /\ o.error.name = "Error"
    /\ o.error.message = "Unable to authenticate with Spotify"
    /\ o.error.errorCode = JsUndefined
    /\ o.error.errorDescription = JsUndefined

C3_AuthErrorPassesThrough ==
    \A c \in Calls :
        ( /\ Settled(c)
          /\ AnsweredWithObject(c)
          /\ delivered[c].response.status \notin 200..299
          /\ HasProp(AnsweredProps(c), "error")
          /\ HasProp(AnsweredProps(c), "error_description") )
        => /\ outcome[c].kind = "rejected"
           /\ outcome[c].error.name = "SpotifyAuthError"
           /\ IsPropValue(AnsweredProps(c), "error", outcome[c].error.errorCode)
           /\ IsPropValue(AnsweredProps(c), "error_description",
                          outcome[c].error.errorDescription)
           /\ outcome[c].error = thrown[c]
           /\ outcome[c].error.message # "Unable to authenticate with Spotify"
           /\ LogsOf(c) = <<>>

\* A call answered with status 400 and invalid_client has failed with the
\* SpotifyAuthError of that code and description.
C3_Witness ==
    \E c \in Calls :
        /\ Settled(c)
        /\ delivered[c].kind = "response"
        /\ delivered[c].response.status = 400
        /\ outcome[c].kind = "rejected"
        /\ outcome[c].error.errorCode = JsString("invalid_client")
        /\ outcome[c].error.errorDescription = JsString("Invalid client secret")
        /\ outcome[c].error = thrown[c]

\* C4: when the try block of a call raises anything but a SpotifyAuthError,
\* the call fails with a new Error whose message is the fixed text and which
\* holds nothing of the original error; the original error is written to the
\* error log exactly once, before the generic error is raised.
C4_OtherErrorsBecomeGeneric ==
    \A c \in Calls :
        (thrown[c] # NoError /\ thrown[c].name # "SpotifyAuthError")
        => /\ Settled(c)
           /\ IsGenericFailure(outcome[c])
           /\ outcome[c].error.id # thrown[c].id
           /\ LogsOf(c) = << [call |-> c, level |-> "error",
                              text |-> "Failed to get Spotify token:",
                              error |-> thrown[c]] >>
           /\ CountOf(c, "log") = 1
           /\ CountOf(c, "throw") = 1
           /\ FirstAt(c, "log") < FirstAt(c, "throw")

\* One call has failed on the network and another on a body that is not JSON
\* under a success status; both ended with the generic error.
C4_Witness ==
    \E c, d \in Calls :
        /\ thrown[c].name = "TypeError" /\ delivered[c].kind = "failure"
        /\ thrown[d].name = "SyntaxError" /\ delivered[d].response.status = 200
        /\ IsGenericFailure(outcome[c])
        /\ IsGenericFailure(outcome[d])
        /\ Len(console) = 2

\* C5: every call that has completed returned a token string, failed with a
\* SpotifyAuthError or failed with the generic error; no call returns a value
\* that is not a string.
C5_ThreeOutcomes ==
    \A c \in Calls :
        Settled(c) =>
            \/ outcome[c].kind = "returned" /\ outcome[c].value.t = "string"
            \/ outcome[c].kind = "rejected"
                  /\ outcome[c].error.name = "SpotifyAuthError"
            \/ IsGenericFailure(outcome[c])

\* C6: every request handed to fetch is a POST to the token endpoint with
\* Content-Type application/x-www-form-urlencoded, the body
\* grant_type=client_credentials, and a header Authorization whose value is
\* 'Basic ', then the base64 of clientId ':' clientSecret.
C6_RequestShape ==
    \A c \in Calls : \A i \in 1..Len(sent[c]) :
        LET req == sent[c][i]
        IN  /\ req.url = "https://accounts.spotify.com/api/token"
            /\ req.method = "POST"
            /\ "Content-Type" \in DOMAIN req.headers
            /\ req.headers["Content-Type"] = "application/x-www-form-urlencoded"
            /\ req.body = "grant_type=client_credentials"
            /\ "Authorization" \in DOMAIN req.headers
            /\ req.headers["Authorization"] =
                  <<66, 97, 115, 105, 99, 32>>
                     \o btoa(EnvToString(CLIENT_ID) \o <<58>>
                                \o EnvToString(CLIENT_SECRET))

\* What a call ends with when it runs alone under environment (id, secret)
\* and the network makes net of its request.
AloneOutcome(c, id, secret, net) ==
    LET text   == EnvToString(id) \o <<58>> \o EnvToString(secret)
        body   == net.response.body
        status == net.response.status
    IN  IF \E i \in 1..Len(text) : text[i] > 255 THEN Rejected(GenericError(c, 2))
        ELSE IF net.kind = "failure" THEN Rejected(GenericError(c, 2))
        ELSE IF ~body.valid THEN Rejected(GenericError(c, 2))
        ELSE IF body.json.t = "null" THEN Rejected(GenericError(c, 2))
        ELSE IF status < 200 \/ status > 299 THEN
            Rejected([name |-> "SpotifyAuthError",
                      message |-> "Spotify API error:: {$errorData.error}",
                      errorCode |-> GetProp(body.json, "error"),
                      errorDescription |-> GetProp(body.json, "error_description"),
                      call |-> c, id |-> 1])
        ELSE Returned(GetProp(body.json, "access_token"))

\* C9: however the requests, responses and body parses of the calls
\* interleave, a call that has completed ended as it would have alone, given
\* the answer to its own request; a call that has not completed is pending,
\* and every console line of a call holds the error of that call.
C9_CallsDoNotInterfere ==
    \A c \in Calls :
        /\ Settled(c) =>
              outcome[c] = AloneOutcome(c, CLIENT_ID, CLIENT_SECRET, delivered[c])
        /\ ~Settled(c) => outcome[c] = Pending /\ thrown[c] = NoError
        /\ \A i \in 1..Len(LogsOf(c)) : LogsOf(c)[i].error = thrown[c]

\* Two calls were answered differently; one has completed while the body of
\* the other is still being parsed.
C9_Witness ==
    \E c, d \in Calls :
        /\ c # d
        /\ Settled(c) /\ outcome[c].kind = "returned"
        /\ pc[d] = "parsingError"
        /\ delivered[c] # delivered[d]

Latin1(text) == \A i \in 1..Len(text) : text[i] <= 255

CredentialText == EnvToString(CLIENT_ID) \o <<58>> \o EnvToString(CLIENT_SECRET)

\* C10 as stated: a call that has completed issued exactly one request, and
\* completed only after that request produced a response or a failure.
C10_ExactlyOneRequest ==
    \A c \in Calls :
        Settled(c) =>
            /\ Len(sent[c]) = 1
            /\ CountOf(c, "request") = 1
            /\ delivered[c].kind # "none"

\* C10 as amended: a call issues at most one request and never sends it
\* again.  It issues exactly one as soon as it has started, unless the
\* credentials hold a code unit above 0xFF: then building the request fails,
\* none is sent, and the call ends with the generic error.  A call that sent
\* a request completes only after the request produced a response or a
\* failure.
C10_AtMostOneRequest ==
    \A c \in Calls :
        /\ Len(sent[c]) <= 1
        /\ CountOf(c, "request") = Len(sent[c])
        /\ Len(sent[c]) = 1 <=> (pc[c] # "idle" /\ Latin1(CredentialText))
        /\ Settled(c) =>
              \/ /\ ~Latin1(CredentialText)
                 /\ sent[c] = <<>>
                 /\ delivered[c].kind = "none"
                 /\ IsGenericFailure(outcome[c])
              \/ /\ Len(sent[c]) = 1
                 /\ delivered[c].kind # "none"
                 /\ FirstAt(c, "request") = 1
                 /\ CountOf(c, "response") + CountOf(c, "failure") = 1
                 /\ events[c][2] \in {"response", "failure"}

\* One call has completed after a network failure and another after a
\* non-success status; each sent its one request.
C10_Witness ==
    \E c, d \in Calls :
        /\ Settled(c) /\ delivered[c].kind = "failure"
        /\ Settled(d) /\ delivered[d].kind = "response"
        /\ delivered[d].response.status = 400
        /\ Len(sent[c]) = 1 /\ Len(sent[d]) = 1

=============================================================================
